---- MODULE Spec2Model ----
(***************************************************************************)
(* Join-request verification bot (telegram_flask_verification_bot.py).     *)
(*                                                                         *)
(* The webhook route puts every inbound update on the application's update *)
(* queue; the library's dispatcher takes updates off the queue and runs    *)
(* the first registered handler that matches (updates that match none are  *)
(* dropped and are left out).  A handler is a coroutine: it runs           *)
(* atomically from one `await` of an outbound call to the next, so each    *)
(* action below is either a handler's entry (up to its first outbound      *)
(* call) or the resumption of a handler after one outbound call returned   *)
(* or raised (up to the next outbound call, or to the handler's end).      *)
(* Other handlers may run while a call is in flight.                       *)
(*                                                                         *)
(* `tasks` holds the handler invocations in flight and the one that ended  *)
(* last, each with the outbound calls it has made; what the properties     *)
(* need of older invocations is kept in `recorded` and `approve_calls`.    *)
(***************************************************************************)
EXTENDS Integers, Sequences, FiniteSets, TLC

\* ---------------------------------------------------------------- bounds
MaxEvents == 3     \* updates delivered to the webhook in one run
MaxTasks == 2      \* handlers that may be in flight at the same time
MaxLen == 2        \* characters in a group name, display name or username

\* ------------------------------------------------------------ value sets
NoUser == 0                       \* Python None where a user id is expected
\* Two user identifiers: the table is keyed by user id and no handler reads
\* another user's entry, so two senders (one to act, one to own a foreign
\* contact card or to act alongside) exercise every branch.
Users == {1, 2}
Chats == {"Test Group"}           \* chat.title of the managed group
NoChat == ""
NoReq == [id |-> 0, user |-> NoUser, chat |-> NoChat]

\* the categories of update the registered handlers tell apart
Kinds == {"start", "join", "contact", "text"}

\* Inbound updates.  `user` is the effective user (absent only for a /start
\* that carries none), `owner` is contact.user_id (optional in a contact),
\* `chat` the title of the chat of a join request.
Events ==
    [kind : {"start"}, user : Users \cup {NoUser}, owner : {NoUser}, chat : {NoChat}]
      \cup [kind : {"join"}, user : Users, owner : {NoUser}, chat : Chats]
      \cup [kind : {"contact"}, user : Users, owner : Users \cup {NoUser}, chat : {NoChat}]
      \cup [kind : {"text"}, user : Users, owner : {NoUser}, chat : {NoChat}]

VARIABLES
    ADMIN_CHAT_ID,          \* TRUE iff the ADMIN_CHAT_ID variable is set
    pending_join_requests,  \* the dict, as a set of [key, value] items
    update_queue,           \* application.update_queue
    dispatched,             \* number of updates taken off the queue
    tasks,                  \* update ordinal -> handler invocation
    recorded,               \* user id -> the join requests recorded, in order
    approve_calls,          \* user id -> the approve() calls made, in order
    application,            \* TRUE iff the module global `application` is set
    response,               \* the last POST /webhook: its body and the status returned
    acked,                  \* number of POSTs answered 200 {"status": "ok"}
    \* set_webhook.py
    environ,                \* os.environ as the utility reads it
    set_webhook_pc,         \* where set_telegram_webhook() stands
    set_webhook_calls,      \* the bot.set_webhook calls made, in order
    registered,             \* the endpoint the platform has registered
    \* the admin notification of handle_contact_shared
    admin_notification      \* one dynamic text and what is interpolated for it

\* the state of the registration utility
setter == <<environ, set_webhook_pc, set_webhook_calls, registered>>

vars == <<ADMIN_CHAT_ID, pending_join_requests, update_queue, dispatched, tasks,
          recorded, approve_calls, application, response, acked, setter,
          admin_notification>>

\* what no handler and no dispatch step writes
static == <<ADMIN_CHAT_ID, application, response, acked, setter, admin_notification>>

\* what the webhook route reads and does not write
config == <<ADMIN_CHAT_ID, application, setter, admin_notification>>

\* history of the table writes and of the approve() calls
hist == <<recorded, approve_calls>>

\* ------------------------------------------------------- dict operations
\* `k in d`
DictHas(d, k) == \E item \in d : item.key = k

\* `d[k]`, for k in d
DictGet(d, k) == (CHOOSE item \in d : item.key = k).value

DictSetKeepOld(d, k, v) == d \cup {[key |-> k, value |-> v]}

\* `d[k] = v`: the item of key k is replaced
DictSet(d, k, v) == {item \in d : item.key # k} \cup {[key |-> k, value |-> v]}

DictDelNothing(d, k) == d

\* `del d[k]` and the removal done by `d.pop(k)`
DictDel(d, k) == {item \in d : item.key # k}

\* ------------------------------------------------------- outbound calls
\* One outbound call of a handler, with its outcome (ok = it returned,
\* ~ok = it raised).  `dest` is "user" for a private message or a reply,
\* "group" for approve (it acts on the group's join request) and "admin"
\* for the notification; `keyboard` is the reply_markup: "button" for the
\* 'I am not a bot' contact button, "remove" for ReplyKeyboardRemove and
\* "none" when no reply_markup is passed.
Call(op, dest, user, req, keyboard, ok) ==
    [op |-> op, dest |-> dest, user |-> user, req |-> req.id,
     keyboard |-> keyboard, ok |-> ok]

\* a handler invocation; `pc` names the outbound call in flight, or "done"
Task(handler, pc, e, req) ==
    [handler |-> handler, pc |-> pc, user |-> e.user, owner |-> e.owner,
     req |-> req, calls |-> <<>>, raised |-> FALSE]

Running == {t \in DOMAIN tasks : tasks[t].pc # "done"}

\* invocation t is now `task`; an invocation that has ended stays until
\* the next one ends
Put(t, task) ==
    LET keep == IF task.pc = "done" THEN Running \ {t} ELSE DOMAIN tasks \ {t}
    IN  tasks' = [x \in keep \cup {t} |-> IF x = t THEN task ELSE tasks[x]]

\* the handler resumes after its call returned/raised and goes on to `pc`
Resume(t, call, pc) ==
    Put(t, [tasks[t] EXCEPT !.calls = Append(@, call), !.pc = pc])

\* the call raised and nothing in the handler catches it
Raise(t, call) ==
    Put(t, [tasks[t] EXCEPT !.calls = Append(@, call), !.pc = "done", !.raised = TRUE])

\* the statuses the webhook route returns to a POST
HTTP_OK == 200
HTTP_BAD_REQUEST == 400
HTTP_INTERNAL_ERROR == 500
HTTP_UNAVAILABLE == 503

\* The bodies of a POST, by what the route's parsing makes of them: the
\* JSON of an update, text that is not JSON, bytes that are not UTF-8 text.
Bodies == {"update", "not json", "not utf-8"}

NoResponse == [body |-> "", status |-> 0]

\* Python None, where a string is expected
None == "None"

\* truth value of a string or None
Truthy(x) == x \notin {None, ""}

\* allowed_updates of a bot.set_webhook call: the argument left out, or
\* Update.ALL_TYPES
AllowedUpdates == {"default", "ALL_TYPES"}

\* the platform has no endpoint registered
NoEndpoint == [url |-> "", allowed_updates |-> "default"]

\* the registration utility is not run
SetWebhookOff ==
    /\ environ = [TELEGRAM_BOT_TOKEN |-> None, RENDER_EXTERNAL_HOSTNAME |-> None,
                  WEBHOOK_URL |-> None]
    /\ set_webhook_pc = "off"
    /\ set_webhook_calls = <<>>
    /\ registered = NoEndpoint

\* no notification text is being built
NoNotification == [field |-> "", text |-> <<>>, built |-> FALSE, out |-> <<>>]

\* the bot's tables when its module has been loaded
BotTables ==
    /\ pending_join_requests = {}
    /\ update_queue = <<>>
    /\ dispatched = 0
    /\ tasks = <<>>
    /\ recorded = [u \in Users |-> <<>>]
    /\ approve_calls = [u \in Users |-> <<>>]
    /\ response = NoResponse
    /\ acked = 0

\* the bot's state when the module has been loaded, but for `application`
BotInit ==
    /\ ADMIN_CHAT_ID \in BOOLEAN
    /\ BotTables
    /\ SetWebhookOff
    /\ admin_notification = NoNotification

\* the bot is not run
BotOff ==
    /\ ADMIN_CHAT_ID = FALSE
    /\ application = FALSE
    /\ BotTables

\* `application = create_application()` has run at module load
Init ==
    /\ BotInit
    /\ application = TRUE

\* ------------------------------------------------------------- webhook
\* a further POST is delivered in this run
MayPost == Len(update_queue) + dispatched < MaxEvents

webhook_ack_only(e) ==
    /\ MayPost
    /\ application
    /\ response' = [body |-> "update", status |-> HTTP_OK]
    /\ acked' = acked + 1
    /\ UNCHANGED <<config, pending_join_requests, update_queue,
                   dispatched, tasks, hist>>

\* POST /webhook with a well-formed update: it is put on the update queue
\* and 200 is returned.  The join request object of a join update is
\* identified by the update's ordinal number.
webhook(e) ==
    /\ MayPost
    /\ application
    /\ update_queue' = Append(update_queue, e)
    /\ response' = [body |-> "update", status |-> HTTP_OK]
    /\ acked' = acked + 1
    /\ UNCHANGED <<config, pending_join_requests, dispatched,
                   tasks, hist>>

\* POST /webhook while `application` is not set: 503, the body is not read
webhook_not_ready(body) ==
    /\ MayPost
    /\ ~application
    /\ response' = [body |-> body, status |-> HTTP_UNAVAILABLE]
    /\ UNCHANGED <<config, pending_join_requests, update_queue,
                   dispatched, tasks, hist, acked>>

\* POST /webhook with text that json.loads rejects: JSONDecodeError, 400
webhook_invalid_json ==
    /\ MayPost
    /\ application
    /\ response' = [body |-> "not json", status |-> HTTP_BAD_REQUEST]
    /\ UNCHANGED <<config, pending_join_requests, update_queue,
                   dispatched, tasks, hist, acked>>

\* POST /webhook with bytes that .decode('utf-8') rejects: UnicodeDecodeError
\* is not a JSONDecodeError, the `except Exception` clause returns 500
webhook_error ==
    /\ MayPost
    /\ application
    /\ response' = [body |-> "not utf-8", status |-> HTTP_INTERNAL_ERROR]
    /\ UNCHANGED <<config, pending_join_requests, update_queue,
                   dispatched, tasks, hist, acked>>

\* The dispatcher takes the next update off the queue for handler `kind`.
Dispatch(kind) ==
    /\ update_queue # <<>>
    /\ Head(update_queue).kind = kind
    /\ Cardinality(Running) < MaxTasks
    /\ update_queue' = Tail(update_queue)
    /\ dispatched' = dispatched + 1

NewId == dispatched + 1

\* ---------------------------------------------------------------- start
\* start(): entry, up to `await update.message.reply_html(...)`
start ==
    /\ Dispatch("start")
    /\ LET e == Head(update_queue) IN
         Put(NewId, Task("start",
                      IF e.user # NoUser THEN "reply_html" ELSE "done", e, NoReq))
    /\ UNCHANGED <<static, pending_join_requests, hist>>

\* start(): reply_html returned or raised (nothing catches it)
start_replied(t, ok) ==
    /\ tasks[t].pc = "reply_html"
    /\ LET call == Call("reply_html", "user", tasks[t].user, NoReq, "none", ok) IN
         IF ok THEN Resume(t, call, "done") ELSE Raise(t, call)
    /\ UNCHANGED <<static, pending_join_requests, update_queue, dispatched, hist>>

\* -------------------------------------------------- handle_join_request
\* entry: record the request, then `await context.bot.send_message(...)`
handle_join_request ==
    /\ Dispatch("join")
    /\ LET e == Head(update_queue)
           req == [id |-> NewId, user |-> e.user, chat |-> e.chat]
       IN  /\ pending_join_requests' = DictSet(pending_join_requests, e.user, req)
           /\ recorded' = [recorded EXCEPT ![e.user] =
                               Append(@, [id |-> req.id, prompt |-> "in flight"])]
           /\ Put(NewId, Task("join", "send_prompt", e, req))
    /\ UNCHANGED <<static, approve_calls>>

\* the outcome of the prompt send of invocation t, noted in the history
Prompted(t, outcome) ==
    /\ recorded' = [recorded EXCEPT ![tasks[t].user] =
            [i \in DOMAIN @ |-> IF @[i].id = tasks[t].req.id
                                THEN [@[i] EXCEPT !.prompt = outcome] ELSE @[i]]]
    /\ UNCHANGED approve_calls

\* the prompt was delivered
join_prompt_sent(t) ==
    /\ tasks[t].pc = "send_prompt"
    /\ Resume(t, Call("send_prompt", "user", tasks[t].user, tasks[t].req, "button", TRUE),
              "done")
    /\ Prompted(t, "delivered")
    /\ UNCHANGED <<static, pending_join_requests, update_queue, dispatched>>

join_prompt_failed_keep(t) ==
    /\ tasks[t].pc = "send_prompt"
    /\ Resume(t, Call("send_prompt", "user", tasks[t].user, tasks[t].req, "button", FALSE),
              "done")
    /\ Prompted(t, "failed")
    /\ UNCHANGED <<static, pending_join_requests, update_queue, dispatched>>

\* the prompt send raised: `if user.id in pending_join_requests: del ...`
join_prompt_failed(t) ==
    /\ tasks[t].pc = "send_prompt"
    /\ pending_join_requests' =
         IF DictHas(pending_join_requests, tasks[t].user)
         THEN DictDel(pending_join_requests, tasks[t].user)
         ELSE pending_join_requests
    /\ Resume(t, Call("send_prompt", "user", tasks[t].user, tasks[t].req, "button", FALSE),
              "done")
    /\ Prompted(t, "failed")
    /\ UNCHANGED <<static, update_queue, dispatched>>

\* ------------------------------------------------ handle_contact_shared
ContactAlwaysOwn(e) == TRUE

ContactHasOwner(e) == e.owner # NoUser

\* `contact and contact.user_id == user.id` (the CONTACT filter passes only
\* messages that carry a contact; its user_id may be absent)
ContactIsOwn(e) == e.owner # NoUser /\ e.owner = e.user

PopKeep(d, k) == d

\* what `d.pop(k)` leaves in d
Pop(d, k) == DictDel(d, k)

\* entry: validate the contact, look the user up, pop the request and
\* `await original_join_request.approve()`; or `await message.reply_text`
\* in the two other branches
handle_contact_shared ==
    /\ Dispatch("contact")
    /\ LET e == Head(update_queue) IN
         IF ContactIsOwn(e)
         THEN IF DictHas(pending_join_requests, e.user)
              THEN /\ pending_join_requests' = Pop(pending_join_requests, e.user)
                   /\ Put(NewId, Task("contact", "approve", e,
                                   DictGet(pending_join_requests, e.user)))
                   /\ approve_calls' = [approve_calls EXCEPT ![e.user] =
                          Append(@, [req |-> DictGet(pending_join_requests, e.user).id,
                                     by |-> NewId])]
              ELSE /\ Put(NewId, Task("contact", "reply_no_pending", e, NoReq))
                   /\ UNCHANGED <<pending_join_requests, approve_calls>>
         ELSE /\ Put(NewId, Task("contact", "reply_invalid_contact", e, NoReq))
              /\ UNCHANGED <<pending_join_requests, approve_calls>>
    /\ UNCHANGED <<static, recorded>>

\* approve() returned: go on to the confirmation reply
contact_approved(t) ==
    /\ tasks[t].pc = "approve"
    /\ Resume(t, Call("approve", "group", tasks[t].user, tasks[t].req, "none", TRUE),
              "reply_approved")
    /\ UNCHANGED <<static, pending_join_requests, update_queue, dispatched, hist>>

contact_approve_failed_restore(t) ==
    /\ tasks[t].pc = "approve"
    /\ pending_join_requests' =
         DictSet(pending_join_requests, tasks[t].user, tasks[t].req)
    /\ Resume(t, Call("approve", "group", tasks[t].user, tasks[t].req, "none", FALSE),
              "reply_approval_failed")
    /\ UNCHANGED <<static, update_queue, dispatched, hist>>

\* approve() raised: the outer `except Exception` sends the failure reply
contact_approve_failed(t) ==
    /\ tasks[t].pc = "approve"
    /\ Resume(t, Call("approve", "group", tasks[t].user, tasks[t].req, "none", FALSE),
              "reply_approval_failed")
    /\ UNCHANGED <<static, pending_join_requests, update_queue, dispatched, hist>>

contact_confirmed_admin_first(t) ==
    /\ tasks[t].pc = "reply_approved"
    /\ Resume(t, Call("admin_notify", "admin", tasks[t].user, tasks[t].req, "none", TRUE),
              "done")
    /\ UNCHANGED <<static, pending_join_requests, update_queue, dispatched, hist>>

\* the confirmation reply returned: `if ADMIN_CHAT_ID:` notify the admin
contact_confirmed(t) ==
    /\ tasks[t].pc = "reply_approved"
    /\ Resume(t, Call("reply_approved", "user", tasks[t].user, tasks[t].req, "remove", TRUE),
              IF ADMIN_CHAT_ID THEN "admin_notify" ELSE "done")
    /\ UNCHANGED <<static, pending_join_requests, update_queue, dispatched, hist>>

\* the confirmation reply raised inside the outer `try`: the same
\* `except Exception` that handles a failed approve() catches it
contact_confirm_failed(t) ==
    /\ tasks[t].pc = "reply_approved"
    /\ Resume(t, Call("reply_approved", "user", tasks[t].user, tasks[t].req, "remove", FALSE),
              "reply_approval_failed")
    /\ UNCHANGED <<static, pending_join_requests, update_queue, dispatched, hist>>

contact_admin_notified_surfacing(t, ok) ==
    /\ tasks[t].pc = "admin_notify"
    /\ Resume(t, Call("admin_notify", "admin", tasks[t].user, tasks[t].req, "none", ok),
              IF ok THEN "done" ELSE "reply_approval_failed")
    /\ UNCHANGED <<static, pending_join_requests, update_queue, dispatched, hist>>

\* the admin notification returned, or raised into the inner `except`
contact_admin_notified(t, ok) ==
    /\ tasks[t].pc = "admin_notify"
    /\ Resume(t, Call("admin_notify", "admin", tasks[t].user, tasks[t].req, "none", ok),
              "done")
    /\ UNCHANGED <<static, pending_join_requests, update_queue, dispatched, hist>>

\* the reply sent from the `except` clause returned or raised
contact_failure_replied(t, ok) ==
    /\ tasks[t].pc = "reply_approval_failed"
    /\ LET call == Call("reply_approval_failed", "user", tasks[t].user, tasks[t].req,
                        "remove", ok)
       IN  IF ok THEN Resume(t, call, "done") ELSE Raise(t, call)
    /\ UNCHANGED <<static, pending_join_requests, update_queue, dispatched, hist>>

NoPendingKeyboardButton == "button"

\* reply_markup of the 'not currently awaiting verification' reply
NoPendingKeyboard == "remove"

\* the 'not currently awaiting verification' reply returned or raised
contact_no_pending_replied(t, ok) ==
    /\ tasks[t].pc = "reply_no_pending"
    /\ LET call == Call("reply_no_pending", "user", tasks[t].user, NoReq,
                        NoPendingKeyboard, ok)
       IN  IF ok THEN Resume(t, call, "done") ELSE Raise(t, call)
    /\ UNCHANGED <<static, pending_join_requests, update_queue, dispatched, hist>>

\* the 'not valid or not your own' reply returned or raised
contact_invalid_replied(t, ok) ==
    /\ tasks[t].pc = "reply_invalid_contact"
    /\ LET call == Call("reply_invalid_contact", "user", tasks[t].user, NoReq, "button", ok)
       IN  IF ok THEN Resume(t, call, "done") ELSE Raise(t, call)
    /\ UNCHANGED <<static, pending_join_requests, update_queue, dispatched, hist>>

\* --------------------------------------------- fallback_message_handler
fallback_message_handler_hello ==
    /\ Dispatch("text")
    /\ Put(NewId, Task("fallback", "reply_hello", Head(update_queue), NoReq))
    /\ UNCHANGED <<static, pending_join_requests, hist>>

\* entry: `if user.id in pending_join_requests` picks the reply (the
\* TEXT & PRIVATE filter passes only text messages, which carry their
\* sender, so the first branch of the handler is the one that runs)
fallback_message_handler ==
    /\ Dispatch("text")
    /\ LET e == Head(update_queue) IN
         Put(NewId, Task("fallback",
                      IF DictHas(pending_join_requests, e.user)
                      THEN "reply_reminder" ELSE "reply_hello", e, NoReq))
    /\ UNCHANGED <<static, pending_join_requests, hist>>

\* the reminder (with the button) or the greeting returned or raised
fallback_replied(t, ok) ==
    /\ tasks[t].pc \in {"reply_reminder", "reply_hello"}
    /\ LET call == Call(tasks[t].pc, "user", tasks[t].user, NoReq,
                        IF tasks[t].pc = "reply_reminder" THEN "button" ELSE "none", ok)
       IN  IF ok THEN Resume(t, call, "done") ELSE Raise(t, call)
    /\ UNCHANGED <<static, pending_join_requests, update_queue, dispatched, hist>>

\* ------------------------------------------------------- specification
\* a handler in flight resumes when its outbound call returns or raises
Resumed ==
    \/ \E t \in DOMAIN tasks, ok \in BOOLEAN : start_replied(t, ok)
    \/ \E t \in DOMAIN tasks : join_prompt_sent(t)
    \/ \E t \in DOMAIN tasks : join_prompt_failed(t)
    \/ \E t \in DOMAIN tasks : contact_approved(t)
    \/ \E t \in DOMAIN tasks : contact_approve_failed(t)
    \/ \E t \in DOMAIN tasks : contact_confirmed(t)
    \/ \E t \in DOMAIN tasks : contact_confirm_failed(t)
    \/ \E t \in DOMAIN tasks, ok \in BOOLEAN : contact_admin_notified(t, ok)
    \/ \E t \in DOMAIN tasks, ok \in BOOLEAN : contact_failure_replied(t, ok)
    \/ \E t \in DOMAIN tasks, ok \in BOOLEAN : contact_no_pending_replied(t, ok)
    \/ \E t \in DOMAIN tasks, ok \in BOOLEAN : contact_invalid_replied(t, ok)
    \/ \E t \in DOMAIN tasks, ok \in BOOLEAN : fallback_replied(t, ok)

\* Handlers may overlap: while one awaits an outbound call the dispatcher
\* may start the next update's handler (up to MaxTasks in flight).
Next ==
    \/ \E e \in Events : webhook(e)
    \/ webhook_invalid_json
    \/ webhook_error
    \/ start
    \/ handle_join_request
    \/ handle_contact_shared
    \/ fallback_message_handler
    \/ Resumed

Spec == Init /\ [][Next]_vars

\* no handler is in flight
Idle == Running = {}

\* The same program with updates handled strictly one after the other (the
\* application is built without concurrent_updates): an update is taken off
\* the queue only once the handler of the update before it has ended.
SerialNext ==
    \/ \E e \in Events : webhook(e)
    \/ webhook_invalid_json
    \/ webhook_error
    \/ Idle /\ start
    \/ Idle /\ handle_join_request
    \/ Idle /\ handle_contact_shared
    \/ Idle /\ fallback_message_handler
    \/ Resumed

SerialSpec == Init /\ [][SerialNext]_vars

\* the handler registered for each category of update
HandlerOf(kind) ==
    CASE kind = "start" -> "start"
      [] kind = "join" -> "join"
      [] kind = "contact" -> "contact"
      [] kind = "text" -> "fallback"

\* Updates are handled strictly one after the other; the dispatcher keeps
\* taking updates off the queue while one is waiting and no handler is in
\* flight, and every outbound call in flight returns or raises in the end.
SerialFairness ==
    /\ WF_vars(Idle /\ start)
    /\ WF_vars(Idle /\ handle_join_request)
    /\ WF_vars(Idle /\ handle_contact_shared)
    /\ WF_vars(Idle /\ fallback_message_handler)
    /\ WF_vars(Resumed)

FairSerialSpec == SerialSpec /\ SerialFairness

\* The webhook route with the module global `application` as an input: set
\* (create_application() returned) or still None.
WebhookInit ==
    /\ BotInit
    /\ application \in BOOLEAN

WebhookNext ==
    \/ \E body \in Bodies : webhook_not_ready(body)
    \/ Next

WebhookSpec == WebhookInit /\ [][WebhookNext]_vars

\* ------------------------------------------------------- set_webhook.py
\* The registration utility: a run of set_telegram_webhook() against the
\* platform, which holds one registered endpoint for the bot.
Tokens == {None, "", "123:abc"}
Hostnames == {None, "", "bot.onrender.com"}
ExplicitUrls == {None, "", "https://example.org/hook"}

\* what the platform may have registered before the run
Endpoints ==
    {NoEndpoint, [url |-> "https://old.example/webhook", allowed_updates |-> "default"]}

\* the names bound in the module's namespace by its imports and definitions
ModuleNames ==
    {"asyncio", "os", "logging", "Update", "Application", "load_dotenv",
     "logger", "BOT_TOKEN", "RENDER_EXTERNAL_HOSTNAME", "WEBHOOK_URL",
     "set_telegram_webhook"}

\* BOT_TOKEN = os.getenv("TELEGRAM_BOT_TOKEN")
BOT_TOKEN == environ.TELEGRAM_BOT_TOKEN

\* RENDER_EXTERNAL_HOSTNAME = os.getenv("RENDER_EXTERNAL_HOSTNAME")
RENDER_EXTERNAL_HOSTNAME == environ.RENDER_EXTERNAL_HOSTNAME

WEBHOOK_URL_explicit_first ==
    IF Truthy(environ.WEBHOOK_URL)
    THEN environ.WEBHOOK_URL
    ELSE IF Truthy(RENDER_EXTERNAL_HOSTNAME)
         THEN "https://" \o RENDER_EXTERNAL_HOSTNAME \o "/webhook"
         ELSE None

\* the callback URL the module resolves when loaded
WEBHOOK_URL ==
    IF Truthy(RENDER_EXTERNAL_HOSTNAME)
    THEN "https://" \o RENDER_EXTERNAL_HOSTNAME \o "/webhook"
    ELSE environ.WEBHOOK_URL

SetWebhookInit ==
    /\ BotOff
    /\ admin_notification = NoNotification
    /\ environ \in [TELEGRAM_BOT_TOKEN : Tokens, RENDER_EXTERNAL_HOSTNAME : Hostnames,
                     WEBHOOK_URL : ExplicitUrls]
    /\ set_webhook_pc = "start"
    /\ set_webhook_calls = <<>>
    /\ registered \in Endpoints

bot == <<ADMIN_CHAT_ID, pending_join_requests, update_queue, dispatched, tasks,
         recorded, approve_calls, application, response, acked>>

set_telegram_webhook_unchecked ==
    /\ set_webhook_pc = "start"
    /\ set_webhook_pc' = IF ~Truthy(BOT_TOKEN) THEN "done" ELSE "clear"
    /\ UNCHANGED <<bot, admin_notification, environ, set_webhook_calls, registered>>

\* entry: the two checks, then `await application.bot.set_webhook(url="")`
set_telegram_webhook ==
    /\ set_webhook_pc = "start"
    /\ set_webhook_pc' =
         IF ~Truthy(BOT_TOKEN) THEN "done"
         ELSE IF ~Truthy(WEBHOOK_URL) THEN "done"
         ELSE "clear"
    /\ UNCHANGED <<bot, admin_notification, environ, set_webhook_calls, registered>>

\* the clearing call returned (the platform has dropped the endpoint) or
\* raised (caught by `except Exception`, the run ends)
set_webhook_cleared(ok) ==
    /\ set_webhook_pc = "clear"
    /\ set_webhook_calls' = Append(set_webhook_calls,
             [url |-> "", allowed_updates |-> "default", ok |-> ok])
    /\ registered' = IF ok THEN NoEndpoint ELSE registered
    /\ set_webhook_pc' = IF ok THEN "register" ELSE "done"
    /\ UNCHANGED <<bot, admin_notification, environ>>

\* `await application.bot.set_webhook(url=WEBHOOK_URL,
\*        allowed_updates=TelegramUpdateType.ALL_TYPES)`: the arguments are
\* evaluated first, and a name the module does not bind raises NameError,
\* caught by `except Exception` before any call is made; otherwise the call
\* is made and returns or raises.
set_webhook_registered(ok) ==
    /\ set_webhook_pc = "register"
    /\ IF "TelegramUpdateType" \in ModuleNames
       THEN /\ set_webhook_calls' = Append(set_webhook_calls,
                    [url |-> WEBHOOK_URL, allowed_updates |-> "ALL_TYPES", ok |-> ok])
            /\ registered' = IF ok
                              THEN [url |-> WEBHOOK_URL, allowed_updates |-> "ALL_TYPES"]
                              ELSE registered
       ELSE UNCHANGED <<set_webhook_calls, registered>>
    /\ set_webhook_pc' = "done"
    /\ UNCHANGED <<bot, admin_notification, environ>>

SetWebhookNext ==
    \/ set_telegram_webhook
    \/ \E ok \in BOOLEAN : set_webhook_cleared(ok)
    \/ \E ok \in BOOLEAN : set_webhook_registered(ok)

SetWebhookSpec == SetWebhookInit /\ [][SetWebhookNext]_vars

\* ------------------------------------------- the admin notification text
\* A text is a sequence of characters.  The characters the notification's
\* markup reserves, the backslash, and one that needs no escaping:
Reserved == {"_", "*", "[", "]", "(", ")", "~", ">", "#", "+", "-", "=", "|",
             "{", "}", ".", "!"}
Alphabet == Reserved \cup {"\\", "a"}

Texts == UNION {[1..n -> Alphabet] : n \in 0..MaxLen}

\* the dynamic texts of the notification
Fields == {"group_name", "full_name", "username"}

\* `s.replace(old, new)` for a one-character `old`
RECURSIVE replace(_, _, _)
replace(s, old, new) ==
    IF s = <<>> THEN <<>>
    ELSE (IF Head(s) = old THEN new ELSE <<Head(s)>>) \o replace(Tail(s), old, new)

\* s.replace(c1, '\\' + c1).replace(c2, '\\' + c2)... for the characters of cs
RECURSIVE replace_each(_, _)
replace_each(s, cs) ==
    IF cs = <<>> THEN s
    ELSE replace_each(replace(s, Head(cs), <<"\\", Head(cs)>>), Tail(cs))

\* the grave accent (U+0060), by name
Backtick == "grave accent"

\* the chain of .replace calls applied to group_name, in the order written
\* (the dot is in it twice)
GroupNameChain ==
    <<"_", "*", "[", Backtick, ".", "!", "(", ")", "-", "~", ">", "#", "+", "=", "|",
      "{", "}", ".">>

escaped_group_name(group_name) == replace_each(group_name, GroupNameChain)

escaped_user_full_name(full_name) == replace_each(full_name, <<"_", "*">>)

\* `user.username if user.username else 'N/A'`, interpolated as it is
username_or_na(username) == IF username # <<>> THEN username ELSE <<"N", "/", "A">>

\* what the f-string interpolates for the dynamic text `text` of `field`
Interpolated(field, text) ==
    CASE field = "group_name" -> escaped_group_name(text)
      [] field = "full_name" -> escaped_user_full_name(text)
      [] field = "username" -> username_or_na(text)

EscapeInit ==
    /\ ADMIN_CHAT_ID = TRUE
    /\ application = TRUE
    /\ BotTables
    /\ SetWebhookOff
    /\ admin_notification \in
          [field : Fields, text : Texts, built : {FALSE}, out : {<<>>}]

\* the handler builds admin_notification_text
build_admin_notification ==
    /\ ~admin_notification.built
    /\ admin_notification.field \in Fields
    /\ admin_notification' =
          [admin_notification EXCEPT
              !.built = TRUE,
              !.out = Interpolated(admin_notification.field, admin_notification.text)]
    /\ UNCHANGED <<bot, setter>>

EscapeNext == build_admin_notification

EscapeSpec == EscapeInit /\ [][EscapeNext]_vars

\* ------------------------------------------------- reading the history
\* the handler invocations that took a step in the current transition
Stepped == {t \in DOMAIN tasks' : t \notin DOMAIN tasks \/ tasks'[t] # tasks[t]}

\* the handler invocations started by the current transition
Started == DOMAIN tasks' \ DOMAIN tasks

CallIdx(t) == DOMAIN tasks[t].calls

\* invocation t has made outbound call `op` and it ended with outcome `ok`
HasCall(t, op, ok) ==
    \E i \in CallIdx(t) : tasks[t].calls[i].op = op /\ tasks[t].calls[i].ok = ok

\* invocation t has made outbound call `op` (in flight, returned or raised)
Called(t, op) ==
    tasks[t].pc = op \/ \E i \in CallIdx(t) : tasks[t].calls[i].op = op

Range(q) == {q[i] : i \in DOMAIN q}

Values(d) == {item.value : item \in d}

ItemsOf(d, k) == {item \in d : item.key = k}

Max(S) == CHOOSE x \in S : \A y \in S : y <= x

\* ids of the join requests of user u recorded before invocation t started
\* (a request's id is the ordinal of the update that carried it)
RecordedBefore(u, t) == {r.id : r \in {x \in Range(recorded[u]) : x.id < t}}

\* the outcome of the prompt send for request id of user u
PromptOf(u, id) == (CHOOSE r \in Range(recorded[u]) : r.id = id).prompt

\* request id of user u was popped by an invocation that started before t
ConsumedBefore(u, id, t) ==
    \E c \in Range(approve_calls[u]) : c.req = id /\ c.by < t

\* a contact-share handled for its sender's own contact card
ValidContact(t) ==
    tasks[t].handler = "contact" /\ tasks[t].owner = tasks[t].user

\* ----------------------------------------------------------------- C1
\* C1: approve() is called only by the contact-shared handler, for a
\* contact whose owner id equals the sender's id, on a join request of that
\* same sender, and that request is the one most recently recorded for the
\* sender when the handler looked it up; no other handler calls approve().
C1_ApproveOnlyForOwnContact ==
    /\ \A t \in DOMAIN tasks :
          Called(t, "approve") =>
              /\ tasks[t].handler = "contact"
              /\ tasks[t].owner = tasks[t].user
              /\ tasks[t].req.user = tasks[t].user
              /\ RecordedBefore(tasks[t].user, t) # {}
              /\ tasks[t].req.id = Max(RecordedBefore(tasks[t].user, t))
              /\ \E c \in Range(approve_calls[tasks[t].user]) :
                    c.by = t /\ c.req = tasks[t].req.id
    /\ \A u \in Users : \A c \in Range(approve_calls[u]) :
          /\ RecordedBefore(u, c.by) # {}
          /\ c.req = Max(RecordedBefore(u, c.by))

\* approve() returned for the second of two requests recorded for a user
C1_Witness ==
    \E t \in DOMAIN tasks :
        /\ HasCall(t, "approve", TRUE)
        /\ Len(recorded[tasks[t].user]) >= 2
        /\ tasks[t].req.id = recorded[tasks[t].user][2].id

\* ----------------------------------------------------------------- C2
\* C2: consume-once.  The approve() calls made for a user never outnumber
\* the join requests recorded for that user; and a valid contact-share
\* handled after the user's latest recorded request was consumed by an
\* earlier contact-share (no join request in between) takes the 'no pending
\* request' branch and calls no approve().
C2_ConsumeOnce ==
    /\ \A u \in Users : Len(approve_calls[u]) <= Len(recorded[u])
    /\ \A t \in DOMAIN tasks :
          ( /\ ValidContact(t)
            /\ RecordedBefore(tasks[t].user, t) # {}
            /\ ConsumedBefore(tasks[t].user, Max(RecordedBefore(tasks[t].user, t)), t) )
          => /\ ~Called(t, "approve")
             /\ Called(t, "reply_no_pending")

\* a second valid contact-share was answered 'no pending request' after the
\* first one had consumed the user's request
C2_Witness ==
    \E t \in DOMAIN tasks :
        /\ ValidContact(t)
        /\ RecordedBefore(tasks[t].user, t) # {}
        /\ ConsumedBefore(tasks[t].user, Max(RecordedBefore(tasks[t].user, t)), t)
        /\ HasCall(t, "reply_no_pending", TRUE)

\* ----------------------------------------------------------------- C3
\* C3: rollback on an undeliverable prompt.  The step in which a
\* join-request handler's prompt send fails ends with no pending entry for
\* the user, and a valid contact-share handled while the user has no
\* pending entry is answered 'no pending request' with no approve() call.
C3_RollbackOnFailedPrompt ==
    [][ /\ \A t \in DOMAIN tasks :
              ( /\ tasks[t].pc = "send_prompt"
                /\ tasks'[t].pc = "done"
                /\ ~tasks'[t].calls[1].ok )
              => ~DictHas(pending_join_requests', tasks[t].user)
        /\ \A t \in Started :
              ( /\ tasks'[t].handler = "contact"
                /\ tasks'[t].owner = tasks'[t].user
                /\ ~DictHas(pending_join_requests, tasks'[t].user) )
              => /\ tasks'[t].pc = "reply_no_pending"
                 /\ tasks'[t].req = NoReq
                 /\ pending_join_requests' = pending_join_requests
                 /\ approve_calls' = approve_calls
      ]_vars

\* a join request's prompt failed and the next update, a valid contact-share
\* of that user, was answered 'no pending request'
C3_Witness ==
    \E t \in DOMAIN tasks :
        /\ ValidContact(t)
        /\ t - 1 \in RecordedBefore(tasks[t].user, t)
        /\ PromptOf(tasks[t].user, t - 1) = "failed"
        /\ ~ConsumedBefore(tasks[t].user, t - 1, t)
        /\ HasCall(t, "reply_no_pending", TRUE)
        /\ ~DictHas(pending_join_requests, tasks[t].user)

\* ----------------------------------------------------------------- C4
\* C4: at most one pending request per user.  The table never holds two
\* entries for one user id, an entry for a user holds the request most
\* recently recorded for that user, and recording a join request leaves
\* exactly one entry for its user, holding that request (a second request
\* recorded before the first is resolved overwrites it).
C4_OnePendingPerUser ==
    [][ /\ \A u \in Users :
              /\ Cardinality(ItemsOf(pending_join_requests', u)) <= 1
              /\ \A item \in ItemsOf(pending_join_requests', u) :
                    /\ item.value.user = u
                    /\ item.value.id = recorded'[u][Len(recorded'[u])].id
        /\ \A t \in Started :
              tasks'[t].handler = "join" =>
                  ItemsOf(pending_join_requests', tasks'[t].user)
                      = {[key |-> tasks'[t].user, value |-> tasks'[t].req]}
      ]_vars

\* two join requests of one user were recorded and prompted for, neither
\* has been consumed, and the table holds the second one only
C4_Witness ==
    \E u \in Users :
        /\ Len(recorded[u]) = 2
        /\ recorded[u][1].prompt = "delivered" /\ recorded[u][2].prompt = "delivered"
        /\ approve_calls[u] = <<>>
        /\ \E item \in pending_join_requests :
              /\ ItemsOf(pending_join_requests, u) = {item}
              /\ item.value.id = recorded[u][2].id

\* ----------------------------------------------------------------- C5
\* C5: contact ownership check.  A contact-share whose owner id differs
\* from the sender's id, or is absent, makes exactly one outbound call, the
\* rejection reply that re-offers the verification button, whether or not
\* the sender has a pending entry; it never calls approve() and no step of
\* its handler changes the pending table.
C5_ForeignContactRejected ==
    [][ \A t \in DOMAIN tasks' :
            (tasks'[t].handler = "contact" /\ tasks'[t].owner # tasks'[t].user)
            => /\ tasks'[t].req = NoReq
               /\ tasks'[t].pc \in {"reply_invalid_contact", "done"}
               /\ Len(tasks'[t].calls) = (IF tasks'[t].pc = "done" THEN 1 ELSE 0)
               /\ \A i \in DOMAIN tasks'[t].calls :
                     /\ tasks'[t].calls[i].op = "reply_invalid_contact"
                     /\ tasks'[t].calls[i].keyboard = "button"
                     /\ tasks'[t].calls[i].user = tasks'[t].user
               /\ t \in Stepped =>
                     /\ pending_join_requests' = pending_join_requests
                     /\ approve_calls' = approve_calls
      ]_vars

\* a user with a pending entry shared another user's contact, was rejected,
\* and the entry is still in the table
C5_Witness ==
    \E t \in DOMAIN tasks :
        /\ tasks[t].handler = "contact"
        /\ tasks[t].owner \notin {tasks[t].user, NoUser}
        /\ HasCall(t, "reply_invalid_contact", TRUE)
        /\ RecordedBefore(tasks[t].user, t) # {}
        /\ \E item \in ItemsOf(pending_join_requests, tasks[t].user) :
              item.value.id = Max(RecordedBefore(tasks[t].user, t))

\* the same with the contact's owner id absent, and no pending entry
C5_WitnessAbsentOwner ==
    \E t \in DOMAIN tasks :
        /\ tasks[t].handler = "contact"
        /\ tasks[t].owner = NoUser
        /\ HasCall(t, "reply_invalid_contact", TRUE)
        /\ ~DictHas(pending_join_requests, tasks[t].user)

\* ----------------------------------------------------------------- C6
\* C6: approval failure is terminal.  When approve() fails, the handler's
\* only further outbound call is the 'approval could not be completed'
\* reply to the user, it sends no admin notification, and the consumed
\* request is not put back: no request on which approve() was called is in
\* the pending table again.
C6_ApprovalFailureTerminal ==
    /\ \A t \in DOMAIN tasks :
          HasCall(t, "approve", FALSE) =>
              /\ tasks[t].calls[1].op = "approve"
              /\ tasks[t].pc \in {"reply_approval_failed", "done"}
              /\ Len(tasks[t].calls) = (IF tasks[t].pc = "done" THEN 2 ELSE 1)
              /\ \A i \in CallIdx(t) :
                    i > 1 => /\ tasks[t].calls[i].op = "reply_approval_failed"
                             /\ tasks[t].calls[i].dest = "user"
                             /\ tasks[t].calls[i].user = tasks[t].user
              /\ ~Called(t, "admin_notify")
              /\ tasks[t].req \notin Values(pending_join_requests)
    /\ \A u \in Users : \A c \in Range(approve_calls[u]) :
          \A item \in pending_join_requests : item.value.id # c.req

\* approve() failed, the user got the failure reply, and the user has no
\* pending entry
C6_Witness ==
    \E t \in DOMAIN tasks :
        /\ HasCall(t, "approve", FALSE)
        /\ HasCall(t, "reply_approval_failed", TRUE)
        /\ tasks[t].pc = "done"
        /\ ~DictHas(pending_join_requests, tasks[t].user)

\* ----------------------------------------------------------------- C7
\* C7: the 'approval could not be completed' reply is sent only when
\* approve() failed: a handler whose approve() returned never sends it, also
\* when a later outbound call of that handler fails.
C7_FailureReplyOnlyAfterFailedApprove ==
    \A t \in DOMAIN tasks :
        HasCall(t, "approve", TRUE) => ~Called(t, "reply_approval_failed")

\* ----------------------------------------------------------------- C8
\* C8: ordering on the success path.  The confirmation reply and the admin
\* notification are sent only after approve() has returned successfully in
\* the same handler, and the admin notification only after the confirmation
\* reply has been sent.
C8_SuccessPathOrder ==
    \A t \in DOMAIN tasks :
        LET calls == tasks[t].calls
            \* the calls made so far, the one in flight last
            ops == [i \in 1..Len(calls) |-> calls[i].op]
                     \o (IF tasks[t].pc = "done" THEN <<>> ELSE <<tasks[t].pc>>)
        IN  \A i \in DOMAIN ops :
              /\ ops[i] \in {"reply_approved", "admin_notify"} =>
                    \E j \in 1..(i - 1) :
                        /\ j <= Len(calls)
                        /\ calls[j].op = "approve" /\ calls[j].ok
                        /\ calls[j].req = tasks[t].req.id
              /\ ops[i] = "admin_notify" =>
                    \E j \in 1..(i - 1) : ops[j] = "reply_approved"

\* approve(), the confirmation reply and the admin notification were made,
\* in that order
C8_Witness ==
    \E t \in DOMAIN tasks :
        /\ Len(tasks[t].calls) = 3
        /\ tasks[t].calls[1].op = "approve" /\ tasks[t].calls[1].ok
        /\ tasks[t].calls[2].op = "reply_approved" /\ tasks[t].calls[2].ok
        /\ tasks[t].calls[3].op = "admin_notify"

\* ----------------------------------------------------------------- C9
\* C9: admin-notification isolation.  A failed admin notification is the
\* handler's last outbound call (no message to the user follows it), the
\* handler returns normally, the approved request is not put back in the
\* pending table and its approve() stays successful; with no admin channel
\* configured no admin notification is attempted.
C9_AdminNotificationIsolated ==
    /\ \A t \in DOMAIN tasks :
          HasCall(t, "admin_notify", FALSE) =>
              /\ tasks[t].calls[Len(tasks[t].calls)].op = "admin_notify"
              /\ tasks[t].pc = "done"
              /\ ~tasks[t].raised
              /\ ~Called(t, "reply_approval_failed")
              /\ HasCall(t, "approve", TRUE)
              /\ tasks[t].req \notin Values(pending_join_requests)
    /\ ~ADMIN_CHAT_ID => \A t \in DOMAIN tasks : ~Called(t, "admin_notify")

\* an admin notification failed after approve() and the confirmation reply
C9_Witness ==
    \E t \in DOMAIN tasks :
        /\ HasCall(t, "admin_notify", FALSE)
        /\ HasCall(t, "reply_approved", TRUE)
        /\ tasks[t].pc = "done"

\* a handler ran its success path to the end with no admin channel set
C9_WitnessNoAdmin ==
    \E t \in DOMAIN tasks :
        ~ADMIN_CHAT_ID /\ HasCall(t, "reply_approved", TRUE) /\ tasks[t].pc = "done"

\* ---------------------------------------------------------------- C10
\* C10 as stated: the reply to a valid contact-share with no pending entry
\* re-offers the verification button.
C10_NoPendingReplyOffersButton ==
    \A t \in DOMAIN tasks : \A i \in CallIdx(t) :
        tasks[t].calls[i].op = "reply_no_pending"
            => tasks[t].calls[i].keyboard = "button"

\* C10 as amended: a valid contact-share handled while its sender has no
\* pending entry (also one delivered before its join request) makes exactly
\* one outbound call, the 'no join request awaiting verification' reply,
\* which removes the reply keyboard; it calls no approve() and no step of
\* its handler changes the pending table.
C10_NoPendingReplyRemovesKeyboard ==
    [][ \A t \in DOMAIN tasks' :
            ( /\ tasks'[t].handler = "contact"
              /\ tasks'[t].owner = tasks'[t].user
              /\ IF t \in Started
                 THEN ~DictHas(pending_join_requests, tasks'[t].user)
                 ELSE tasks[t].req = NoReq )
            => /\ tasks'[t].req = NoReq
               /\ tasks'[t].pc \in {"reply_no_pending", "done"}
               /\ Len(tasks'[t].calls) = (IF tasks'[t].pc = "done" THEN 1 ELSE 0)
               /\ \A i \in DOMAIN tasks'[t].calls :
                     /\ tasks'[t].calls[i].op = "reply_no_pending"
                     /\ tasks'[t].calls[i].keyboard = "remove"
                     /\ tasks'[t].calls[i].user = tasks'[t].user
               /\ t \in Stepped => pending_join_requests' = pending_join_requests
      ]_vars

\* a valid contact-share arrived before the sender's join request: it was
\* answered 'no pending request' and the join request recorded afterwards
\* is pending
C10_Witness ==
    \E t \in DOMAIN tasks :
        /\ ValidContact(t)
        /\ HasCall(t, "reply_no_pending", TRUE)
        /\ RecordedBefore(tasks[t].user, t) = {}
        /\ DictHas(pending_join_requests, tasks[t].user)

\* ----------------------------------------------------------------- C11
\* C11: a POST answered with an error status changes nothing.  A body that
\* is not valid JSON is answered 400 and a POST that finds `application`
\* unset is answered 503; a POST answered 400 or 503 puts nothing on the
\* update queue, starts or resumes no handler, and leaves the pending
\* table and its history as they were.
C11_ErrorPostChangesNothing ==
    [][response' # response =>
          /\ (~application => response'.status = HTTP_UNAVAILABLE)
          /\ (application /\ response'.body \in {"not json", "not utf-8"}
                  => response'.status = HTTP_BAD_REQUEST)
          /\ (response'.status \in {HTTP_BAD_REQUEST, HTTP_UNAVAILABLE}
                  => UNCHANGED <<pending_join_requests, update_queue, dispatched,
                                 tasks, hist, acked>>)]_vars

\* ----------------------------------------------------------------- C12
\* C12: a run of the registration utility with a token and a resolvable URL
\* makes the clearing call (empty URL) first and the registering call
\* (resolved URL, all update types) second, never the other way round; and
\* when no call failed the run ends with the platform's registered
\* endpoint equal to the resolved URL, not left cleared.
C12_ClearThenRegister ==
    Truthy(BOT_TOKEN) /\ Truthy(WEBHOOK_URL) =>
        /\ Len(set_webhook_calls) <= 2
        /\ Len(set_webhook_calls) >= 1 =>
               /\ set_webhook_calls[1].url = ""
        /\ Len(set_webhook_calls) >= 2 =>
               /\ set_webhook_calls[2].url = WEBHOOK_URL
               /\ set_webhook_calls[2].allowed_updates = "ALL_TYPES"
        /\ set_webhook_pc = "done"
              /\ (\A i \in DOMAIN set_webhook_calls : set_webhook_calls[i].ok)
              => /\ Len(set_webhook_calls) = 2
                 /\ registered = [url |-> WEBHOOK_URL, allowed_updates |-> "ALL_TYPES"]

\* ----------------------------------------------------------------- C13
\* C13: fail-fast.  When the token is absent, or no callback URL can be
\* resolved, the registration utility makes no outbound call at all and the
\* platform's registered endpoint stays what it was.
C13_FailFastOnMissingConfig ==
    /\ [](~Truthy(BOT_TOKEN) \/ ~Truthy(WEBHOOK_URL) =>
             /\ set_webhook_calls = <<>>
             /\ set_webhook_pc \in {"start", "done"})
    /\ [][~Truthy(BOT_TOKEN) \/ ~Truthy(WEBHOOK_URL) => registered' = registered]_vars

\* a run with a token, but no hostname and no explicit URL, has ended and
\* the endpoint registered before is still there
C13_Witness ==
    /\ set_webhook_pc = "done"
    /\ Truthy(BOT_TOKEN)
    /\ ~Truthy(RENDER_EXTERNAL_HOSTNAME) /\ ~Truthy(environ.WEBHOOK_URL)
    /\ registered # NoEndpoint

\* a run without a token has ended
C13_WitnessNoToken ==
    /\ set_webhook_pc = "done"
    /\ ~Truthy(BOT_TOKEN)
    /\ Truthy(WEBHOOK_URL)

\* ----------------------------------------------------------------- C14
\* C14: URL resolution.  With a hostname given the resolved callback URL is
\* "https://" + hostname + "/webhook", whether or not an explicit URL is
\* given as well; with only an explicit URL given it is that URL; with
\* neither given no URL is resolved.  (An empty value counts as not given.)
C14_UrlResolution ==
    LET hostname == environ.RENDER_EXTERNAL_HOSTNAME
        explicit == environ.WEBHOOK_URL
        Given(x) == x # None /\ x # ""
    IN  /\ Given(hostname) => WEBHOOK_URL = "https://" \o hostname \o "/webhook"
        /\ hostname = "bot.onrender.com" => WEBHOOK_URL = "https://bot.onrender.com/webhook"
        /\ ~Given(hostname) /\ Given(explicit) => WEBHOOK_URL = explicit
        /\ ~Given(hostname) /\ ~Given(explicit) => WEBHOOK_URL \in {None, ""}
        /\ set_webhook_pc \in {"clear", "register"} =>
               WEBHOOK_URL \in {"https://bot.onrender.com/webhook", "https://example.org/hook"}

\* a run given both a hostname and an explicit URL got past the URL check
C14_Witness ==
    /\ Truthy(environ.RENDER_EXTERNAL_HOSTNAME)
    /\ Truthy(environ.WEBHOOK_URL)
    /\ set_webhook_pc = "clear"

\* a run given only an explicit URL got past the URL check
C14_WitnessExplicitOnly ==
    /\ environ.RENDER_EXTERNAL_HOSTNAME = None
    /\ Truthy(environ.WEBHOOK_URL)
    /\ set_webhook_pc = "clear"

\* ----------------------------------------------------------------- C15
\* C15: every dynamic text of the admin notification (group name, display
\* name, username) is interpolated with each reserved character preceded
\* by exactly one inserted backslash and each backslash of the text
\* doubled, as escaping the backslash first and the reserved characters
\* after it gives.
C15_NotificationTextEscaped ==
    LET Escape(c) == IF c \in Reserved \cup {"\\"} THEN <<"\\", c>> ELSE <<c>>
        Escaped[s \in Texts] ==
            IF s = <<>> THEN <<>> ELSE Escape(Head(s)) \o Escaped[Tail(s)]
    IN  admin_notification.built /\ admin_notification.text # <<>> =>
            admin_notification.out = Escaped[admin_notification.text]

\* ----------------------------------------------------------------- C16
\* C16: no double consumption when handlers interleave.  No join request is
\* handed to approve() twice; and of two valid contact-shares of the same
\* user, the second started after the first had taken the user's entry
\* and with no join request of the user recorded in between, the second
\* calls no approve() and takes the 'no pending request' branch, also
\* while the first one's calls are still in flight.
C16_NoDoubleConsumption ==
    /\ \A u \in Users : \A i, j \in DOMAIN approve_calls[u] :
          i # j => approve_calls[u][i].req # approve_calls[u][j].req
    /\ \A t1, t2 \in DOMAIN tasks :
          ( /\ t1 < t2
            /\ ValidContact(t1) /\ ValidContact(t2)
            /\ tasks[t1].user = tasks[t2].user
            /\ Called(t1, "approve")
            /\ \A r \in Range(recorded[tasks[t1].user]) : ~(t1 < r.id /\ r.id < t2) )
          => /\ ~Called(t2, "approve")
             /\ Called(t2, "reply_no_pending")

\* two valid contact-shares of one user are in flight together: the first
\* awaits approve(), the second awaits its 'no pending request' reply
C16_Witness ==
    \E t1, t2 \in Running :
        /\ t1 < t2
        /\ ValidContact(t1) /\ ValidContact(t2)
        /\ tasks[t1].user = tasks[t2].user
        /\ tasks[t1].pc = "approve"
        /\ tasks[t2].pc = "reply_no_pending"

C19_NoErrorEscapesHandler ==
    \A t \in DOMAIN tasks : ~tasks[t].raised

C20_WitnessAllHandled ==
    /\ acked = MaxEvents
    /\ dispatched = acked
    /\ Running = {}

\* ----------------------------------------------------------------- C21
\* C21: the fallback handler, started for a text message of user U, sends
\* the reminder with the 'I am not a bot' button exactly when U has a
\* pending entry at that moment and the greeting that states the bot's
\* purpose (with no keyboard) otherwise; no step of the handler adds,
\* removes or changes a pending entry, and it never calls approve().
C21_FallbackRemindsIffPending ==
    [][ /\ \A t \in Started :
             tasks'[t].handler = "fallback" =>
                 /\ tasks'[t].pc = IF DictHas(pending_join_requests, tasks'[t].user)
                                   THEN "reply_reminder" ELSE "reply_hello"
                 /\ tasks'[t].req = NoReq
                 /\ UNCHANGED <<pending_join_requests, hist>>
        /\ \A t \in Stepped \cap DOMAIN tasks :
             tasks[t].handler = "fallback" =>
                 /\ tasks'[t].pc = "done"
                 /\ Len(tasks'[t].calls) = 1
                 /\ tasks'[t].calls[1].op = tasks[t].pc
                 /\ tasks'[t].calls[1].dest = "user"
                 /\ tasks'[t].calls[1].user = tasks[t].user
                 /\ tasks'[t].calls[1].keyboard =
                        IF tasks[t].pc = "reply_reminder" THEN "button" ELSE "none"
                 /\ UNCHANGED <<pending_join_requests, hist>>]_vars

\* the reminder was sent to a user whose join request is still pending
C21_Witness ==
    \E t \in DOMAIN tasks :
        /\ tasks[t].handler = "fallback"
        /\ HasCall(t, "reply_reminder", TRUE)
        /\ DictHas(pending_join_requests, tasks[t].user)
        /\ approve_calls[tasks[t].user] = <<>>

\* the greeting was sent to a user whose join request had been consumed
C21_WitnessNoPending ==
    \E t \in DOMAIN tasks :
        /\ tasks[t].handler = "fallback"
        /\ HasCall(t, "reply_hello", TRUE)
        /\ approve_calls[tasks[t].user] # <<>>
        /\ ~DictHas(pending_join_requests, tasks[t].user)

====
